---- MODULE Spec2Model ----
(***************************************************************************)
(* Order execution engine: the in-memory queue (SimpleQueueService), the   *)
(* execution coordinator (ExecutionService.processOrder), the mock venue   *)
(* router and the in-memory order store, as one state machine.             *)
(*                                                                         *)
(* Node's event loop runs one macrotask (an HTTP handler, an expired       *)
(* timer) with all the microtasks it schedules to completion before the    *)
(* next timer fires, so every action below is one such macrotask: it runs  *)
(* from the event that wakes the code to the next setTimeout-backed await. *)
(***************************************************************************)
EXTENDS Integers, Sequences, FiniteSets, TLC

\* ------------------------------------------------------------ bounds
\* number of orders submitted in a run
NumOrders == 2
\* config.queue.concurrency (QUEUE_CONCURRENCY, default 10), scaled down
Concurrency == 1

\* ------------------------------------------------- program constants
\* config.queue.maxRetries (MAX_RETRY_ATTEMPTS, default 3)
MaxRetries == 3
\* the base of the retry delay, in milliseconds
BackoffBase == 1000

Orders == 1..NumOrders

NoOrder == [status |-> "absent"]
NoJob == [attempts |-> 0, status |-> "none", error |-> "none"]

VARIABLES
  store,          \* InMemoryDatabase.orders: id -> stored copy of the order
  order,          \* the Order object shared by the queue job and the coordinator
  job,            \* the QueueJob of each order: attempts, status, error
  queue,          \* SimpleQueueService.queue, the waiting list
  activeJobs,     \* SimpleQueueService.activeJobs
  completedJobs,  \* SimpleQueueService.completedJobs
  failedJobs,     \* SimpleQueueService.failedJobs
  processing,     \* SimpleQueueService.processing
  loops,          \* number of processQueue calls suspended in delay(100)
  pc,             \* where the processJob call of each order is suspended
  timer,          \* milliseconds left of the backoff delay of each order
  waited,         \* milliseconds the order has spent in its current backoff
  published,      \* the status events emitted on order:<id>, oldest first
  invocations,    \* number of processOrder calls made for each order
  ahead,          \* for each retried job, its attempt count on its last
                  \* re-entry (at) and the jobs it found waiting then, with
                  \* their attempt counts (before)
  closed,         \* close() has been called (gracefulShutdown calls it once)
  router,         \* one call sequence on the venue router taken alone: the
                  \* request, the draws, and what the router returned
  hub,            \* the event hub taken alone: the listeners of each
                  \* channel, the subscriptions made, and what each received
  reply,          \* the response of the last HTTP request answered
  websocket       \* the WebSocket service taken alone: its connections
                  \* map and the connections handed to it

engine == <<store, order, job, queue, activeJobs, completedJobs, failedJobs,
            processing, loops, pc, timer, waited, published, invocations,
            ahead, closed>>

vars == <<store, order, job, queue, activeJobs, completedJobs, failedJobs,
          processing, loops, pc, timer, waited, published, invocations,
          ahead, closed, router, hub, reply, websocket>>

Range(s) == {s[i] : i \in 1..Len(s)}

RECURSIVE Pow2(_)
Pow2(n) == IF n <= 0 THEN 1 ELSE 2 * Pow2(n - 1)

\* ------------------------------------------------------- the venue router
\* Numbers are fixed-point: a base price is a whole number of hundredths, a
\* variance a whole number of thousandths, so a price is a whole number of
\* 1e-5 units; a fee is a whole number of thousandths, and an estimated
\* output (amount * price * (1 - fee)) a whole number of 1e-8 units.
\* A draw of Math.random() is the fraction num/den, 0 <= num < den.  An
\* optional field is the empty sequence when absent, <<v>> when present.

None == <<>>
Some(v) == <<v>>

\* token symbols, as their UTF-16 code units
SOL == <<83, 79, 76>>
USDC == <<85, 83, 68, 67>>
BONK == <<66, 79, 78, 75>>
RAY == <<82, 65, 89>>

\* the token pairs of the requests
TokenPairs == {<<SOL, USDC>>, <<USDC, SOL>>, <<USDC, BONK>>, <<BONK, RAY>>}

\* A 32-bit integer is kept as its two 16-bit words, so that no step
\* leaves the 32-bit range.

\* hash = ((hash << 5) - hash) + char; hash = hash & hash, with the hash
\* given and returned as its high and low words
RECURSIVE hashLoop(_, _, _, _)
hashLoop(str, i, hi, lo) ==
  IF i > Len(str)
    THEN [hi |-> hi, lo |-> lo]
    ELSE hashLoop(str, i + 1,
                  (31 * hi + ((31 * lo + str[i]) \div 65536)) % 65536,
                  (31 * lo + str[i]) % 65536)

\* the sign and the magnitude, modulo 100, of a 32-bit two's-complement word
\* pair (65536 % 100 = 36)
negative(h) == h.hi >= 32768
magnitudeMod100(h) ==
  IF negative(h)
    THEN IF h.lo = 0
           THEN (((65536 - h.hi) % 100) * 36) % 100
           ELSE (((65535 - h.hi) % 100) * 36 + (65536 - h.lo)) % 100
    ELSE ((h.hi % 100) * 36 + h.lo) % 100

\* (mutant) the hash without Math.abs: the remainder of a negative hash is
\* negative
simpleHashMod100Signed(str) ==
  LET h == hashLoop(str, 1, 0, 0)
  IN IF negative(h) THEN 0 - magnitudeMod100(h) ELSE magnitudeMod100(h)

\* simpleHash(str) % 100: the hash is returned through Math.abs
simpleHashMod100(str) ==
  magnitudeMod100(hashLoop(str, 1, 0, 0))

\* calculateBasePrice, in hundredths: 1.0 + (hash % 100) / 100
calculateBasePrice(tokenIn, tokenOut) ==
  100 + simpleHashMod100(tokenIn \o tokenOut)

\* the base price of each pair of the requests, computed once
basePrices ==
  [pair \in TokenPairs |-> calculateBasePrice(pair[1], pair[2])]

\* the variance of a venue in thousandths: low + Math.random() * width
variance(low, width, draw) == low + (width * draw.num) \div draw.den

\* the quote both venues build: price, fee and the output net of the fee
quote(dex, tokenIn, tokenOut, amount, low, width, fee, draw) ==
  LET price == basePrices[<<tokenIn, tokenOut>>] * variance(low, width, draw)
  IN [dex |-> dex, price |-> price, fee |-> fee,
      estimatedOutput |-> amount * price * (1000 - fee)]

\* getRaydiumQuote: variance 0.98 + random * 0.04, fee 0.003
getRaydiumQuote(tokenIn, tokenOut, amount, draw) ==
  quote("raydium", tokenIn, tokenOut, amount, 980, 40, 3, draw)

\* getMeteorQuote: variance 0.97 + random * 0.05, fee 0.002
getMeteorQuote(tokenIn, tokenOut, amount, draw) ==
  quote("meteora", tokenIn, tokenOut, amount, 970, 50, 2, draw)

\* (mutant) the venue with the higher raw price is selected
getBestQuoteByPrice(tokenIn, tokenOut, amount, raydiumDraw, meteoraDraw) ==
  LET raydium == getRaydiumQuote(tokenIn, tokenOut, amount, raydiumDraw)
      meteora == getMeteorQuote(tokenIn, tokenOut, amount, meteoraDraw)
  IN [best |-> IF raydium.price > meteora.price THEN raydium ELSE meteora,
      raydium |-> raydium, meteora |-> meteora]

\* (mutant) raydium is selected on equal estimated outputs
getBestQuoteRaydiumOnTie(tokenIn, tokenOut, amount, raydiumDraw, meteoraDraw) ==
  LET raydium == getRaydiumQuote(tokenIn, tokenOut, amount, raydiumDraw)
      meteora == getMeteorQuote(tokenIn, tokenOut, amount, meteoraDraw)
  IN [best |-> IF raydium.estimatedOutput >= meteora.estimatedOutput
                 THEN raydium ELSE meteora,
      raydium |-> raydium, meteora |-> meteora]

\* getBestQuote: both venues are quoted; raydium is the best only when its
\* estimated output is strictly higher
getBestQuote(tokenIn, tokenOut, amount, raydiumDraw, meteoraDraw) ==
  LET raydium == getRaydiumQuote(tokenIn, tokenOut, amount, raydiumDraw)
      meteora == getMeteorQuote(tokenIn, tokenOut, amount, meteoraDraw)
  IN [best |-> IF raydium.estimatedOutput > meteora.estimatedOutput
                 THEN raydium ELSE meteora,
      raydium |-> raydium, meteora |-> meteora]

\* the characters generateMockTxHash draws from
HexChars == <<"0", "1", "2", "3", "4", "5", "6", "7",
              "8", "9", "a", "b", "c", "d", "e", "f">>

\* (mutant) one character short
generateMockTxHashShort(draws) ==
  [i \in 1..63 |->
     HexChars[(Len(HexChars) * draws[i].num) \div draws[i].den + 1]]

\* generateMockTxHash: 64 characters, each chars[floor(random * 16)]
generateMockTxHash(draws) ==
  [i \in 1..64 |->
     HexChars[(Len(HexChars) * draws[i].num) \div draws[i].den + 1]]

\* the result executeSwap builds for a failure
swapFailure(message) ==
  [raised |-> FALSE, success |-> FALSE, txHash |-> None,
   executedPrice |-> None, outputAmount |-> None, unit |-> None,
   error |-> message]

\* (mutant) the executed price is drawn above the quoted price
swapSuccessAbove(dex, ord, draws) ==
  LET unit == 100 * draws.slip.den
      executedPrice == ord.executedPrice[1]
                         * (unit + draws.slip.num * ord.slippage)
  IN [raised |-> FALSE, success |-> TRUE,
      txHash |-> Some(generateMockTxHash(draws.hash)),
      executedPrice |-> Some(executedPrice),
      outputAmount |-> Some(ord.amountIn * executedPrice),
      unit |-> Some(unit), error |-> "none"]

\* the result executeSwap builds for a success: the executed price is
\* executedPrice * (1 - random * (slippage / 100)), kept in units of 1/unit
\* of a price unit, unit = 100 * den of the draw; outputAmount is
\* amountIn * executedPrice in the same units
swapSuccess(dex, ord, draws) ==
  LET unit == 100 * draws.slip.den
      executedPrice == ord.executedPrice[1]
                         * (unit - draws.slip.num * ord.slippage)
  IN [raised |-> FALSE, success |-> TRUE,
      txHash |-> Some(generateMockTxHash(draws.hash)),
      executedPrice |-> Some(executedPrice),
      outputAmount |-> Some(ord.amountIn * executedPrice),
      unit |-> Some(unit), error |-> "none"]

\* the simulated network failure: Math.random() < 0.05
networkFails(draw) == 100 * draw.num < 5 * draw.den

\* (mutant) the failure escapes executeSwap instead of being returned
executeSwapRethrows(dex, ord, draws) ==
  IF networkFails(draws.fail)
    THEN [swapFailure(dex \o " execution failed: Network timeout")
            EXCEPT !.raised = TRUE]
    ELSE swapSuccess(dex, ord, draws)

\* executeSwap: the failure thrown inside the try block is caught and
\* returned as a result
executeSwap(dex, ord, draws) ==
  IF networkFails(draws.fail)
    THEN swapFailure(dex \o " execution failed: Network timeout")
    ELSE swapSuccess(dex, ord, draws)

\* ------------------------------------------------- requests and draws

\* the amounts and slippage tolerances (in percent) of the requests
Amounts == {1, 10}
Slippages == {0, 1, 100}

\* the draws of Math.random() behind the two variances, picked so that each
\* variance is a whole number of thousandths: 0.98, 0.998, 1.001, 1.019 for
\* raydium and 0.97, 0.997, 1.0, 1.019 for meteora
RaydiumDraws == {[num |-> n, den |-> 200] : n \in {0, 90, 105, 195}}
MeteoraDraws == {[num |-> n, den |-> 200] : n \in {0, 108, 120, 196}}

\* the draws behind the simulated failure, the slippage and the hash
FailDraws == {[num |-> n, den |-> 100] : n \in {2, 5}}
SlipDraws == {[num |-> n, den |-> 4] : n \in {0, 1, 3}}
HashDraws == {[i \in 1..64 |-> [num |-> (i * k) % 16, den |-> 16]] : k \in {0, 7}}

\* the request every order of the engine carries, and the draws its quotes
\* and its swap are computed from
PipelineRequest ==
  [type |-> "market", tokenIn |-> SOL, tokenOut |-> USDC, amountIn |-> 10,
   slippage |-> 1]
PipelineDraws ==
  {[raydium |-> [num |-> 0, den |-> 200], meteora |-> [num |-> 120, den |-> 200]]}
PipelineSwapDraws ==
  {[fail |-> f, slip |-> [num |-> 1, den |-> 4],
    hash |-> [i \in 1..64 |-> [num |-> (i * 7) % 16, den |-> 16]]] :
     f \in FailDraws}

\* the Order the HTTP handler builds from a validated request
newOrder(request) ==
  [status |-> "pending", selectedDex |-> "none", type |-> request.type,
   tokenIn |-> request.tokenIn, tokenOut |-> request.tokenOut,
   amountIn |-> request.amountIn, slippage |-> request.slippage,
   raydiumQuote |-> None, meteoraQuote |-> None, executedPrice |-> None]

\* ------------------------------------------------- request validation
\* A request body gives each field as an optional value.

\* the bodies POST /api/orders/execute is called with
Bodies ==
  {[type |-> t, tokenIn |-> ti, tokenOut |-> Some(USDC), amountIn |-> a,
    slippage |-> sl] :
     t \in {Some("market"), Some("swap")},
     ti \in {None, Some(<<>>), Some(SOL)},
     a \in {Some(0 - 1), Some(0), Some(10)},
     sl \in {None, Some(0 - 1), Some(1), Some(101)}}

\* the fields of a body CreateOrderSchema finds fault with
schemaErrors(body, minAmount) ==
  {f \in {"type"} : body.type = None
                      \/ body.type[1] \notin {"market", "limit", "sniper"}}
  \cup {f \in {"tokenIn"} : body.tokenIn = None \/ Len(body.tokenIn[1]) < 1}
  \cup {f \in {"tokenOut"} : body.tokenOut = None \/ Len(body.tokenOut[1]) < 1}
  \cup {f \in {"amountIn"} : body.amountIn = None
                              \/ body.amountIn[1] < minAmount}
  \cup {f \in {"slippage"} : body.slippage # None
                              /\ (body.slippage[1] < 0 \/ body.slippage[1] > 100)}

\* the result of validating a body with the given set of faulty fields:
\* the parsed order data, slippage 1 when the body has none, or the
\* ValidationError with its fields
validated(body, errors) ==
  IF errors = {}
    THEN [ok |-> TRUE, errors |-> {},
          dto |-> Some([type |-> body.type[1], tokenIn |-> body.tokenIn[1],
                        tokenOut |-> body.tokenOut[1],
                        amountIn |-> body.amountIn[1],
                        slippage |-> IF body.slippage = None
                                       THEN 1 ELSE body.slippage[1]])]
    ELSE [ok |-> FALSE, errors |-> errors, dto |-> None]

\* (mutant) an amount of zero passes
validateCreateOrderNonNegative(body) == validated(body, schemaErrors(body, 0))

\* validateCreateOrder: CreateOrderSchema.parse; amountIn is positive (the
\* amounts of Bodies are whole numbers)
validateCreateOrder(body) == validated(body, schemaErrors(body, 1))

\* ------------------------------------------------- the order store

\* (mutant) the record is returned without the test for absence
getOrderUnchecked(orders, orderId) == Some(orders[orderId])

\* getOrder: the stored record, or null
getOrder(orders, orderId) ==
  IF orders[orderId] = [status |-> "absent"]
    THEN None
    ELSE Some(orders[orderId])

\* createOrder: a copy of the order is stored; the fields no update has
\* written yet are absent
createOrder(ord) ==
  [status |-> ord.status, selectedDex |-> ord.selectedDex, type |-> ord.type,
   tokenIn |-> ord.tokenIn, tokenOut |-> ord.tokenOut,
   amountIn |-> ord.amountIn, slippage |-> ord.slippage,
   raydiumQuote |-> ord.raydiumQuote, meteoraQuote |-> ord.meteoraQuote,
   executedPrice |-> ord.executedPrice, outputAmount |-> None,
   txHash |-> None, error |-> "none"]

\* updateOrder: throws when the order is not stored
updateOrderMissing(rec) == rec = NoOrder

\* ------------------------------------------------- the coordinator
\* A context is the state one processOrder call works on: the order
\* object, its stored copy, the events emitted so far, the attempt number,
\* and the error raised ("none" while no error is propagating).

\* the data of a status update that carries none
NoData ==
  [selectedDex |-> "none", raydiumQuote |-> None, meteoraQuote |-> None,
   txHash |-> None, executedPrice |-> None, outputAmount |-> None,
   error |-> "none"]

\* the callbacks subscribed to an order's channel while the engine runs:
\* none, one that returns normally, or one that throws when it is handed
\* a terminal event of the given status
SubscriberCallbacks == {"none", "quiet", "onConfirmed", "onFailed"}

\* the statuses at whose delivery a callback throws
raisesOn(callback) ==
  IF callback = "onConfirmed" THEN {"confirmed"}
  ELSE IF callback = "onFailed" THEN {"failed"}
  ELSE {}

\* the message of the error a callback throws
CallbackError == "callback error"

\* emitStatusUpdate: the event is delivered synchronously, so a subscriber
\* reading the order inside its callback sees the status the order object
\* has now (recorded as seen) and the status an order lookup returns now
\* (recorded as stored); attempt is the attempt the event belongs to.
\* What the subscriber's callback throws leaves emit and emitStatusUpdate
\* as the error raised.
emitStatusUpdate(ctx, status, data) ==
  [ctx EXCEPT !.log = Append(@, [status |-> status,
                                 data |-> data,
                                 attempt |-> ctx.att,
                                 seen |-> ctx.order.status,
                                 stored |-> ctx.rec.status]),
              !.err = IF status \in ctx.raises THEN CallbackError ELSE @]

\* (mutant) the event is emitted before the status is written
updateOrderStatusEmitFirst(ctx, status, data) ==
  [emitStatusUpdate(ctx, status, data) EXCEPT !.order.status = status]

\* updateOrderStatus: the status is written on the order, then emitted
updateOrderStatus(ctx, status, data) ==
  emitStatusUpdate([ctx EXCEPT !.order.status = status], status, data)

\* (mutant) the catch block records the failure and returns normally
processOrderCatchSwallows(ctx, errorMessage) ==
  LET c1 == updateOrderStatus(ctx, "failed",
                              [NoData EXCEPT !.error = errorMessage])
  IN IF updateOrderMissing(c1.rec)
       THEN c1
       ELSE [c1 EXCEPT !.rec.status = "failed",
                       !.rec.error = errorMessage]

\* processOrder's catch block: FAILED is written and emitted, the store is
\* updated, and the error is rethrown
processOrderCatch(ctx, errorMessage) ==
  LET c1 == updateOrderStatus([ctx EXCEPT !.err = "none"], "failed",
                              [NoData EXCEPT !.error = errorMessage])
  IN IF c1.err # "none"
       THEN c1
       ELSE IF updateOrderMissing(c1.rec)
         THEN [c1 EXCEPT !.err = "Order not found"]
         ELSE [c1 EXCEPT !.rec.status = "failed",
                         !.rec.error = errorMessage,
                         !.err = errorMessage]

\* (mutant) a retry starts at routing: pending is published by the first
\* attempt only
processOrderBeginRoutingOnRetry(ctx) ==
  IF ctx.att > 1
    THEN updateOrderStatus(ctx, "routing", NoData)
    ELSE updateOrderStatus(updateOrderStatus(ctx, "pending", NoData),
                           "routing", NoData)

\* processOrder up to the await of getBestQuote
processOrderBegin(ctx) ==
  updateOrderStatus(updateOrderStatus(ctx, "pending", NoData),
                    "routing", NoData)

\* the order object once the quotes are in: the route and both prices
routedOrder(ord, quotes) ==
  [ord EXCEPT !.selectedDex = quotes.best.dex,
              !.raydiumQuote = Some(quotes.raydium.price),
              !.meteoraQuote = Some(quotes.meteora.price),
              !.executedPrice = Some(quotes.best.price)]

\* the stored order once the route is persisted
routedRecord(rec, ord) ==
  [rec EXCEPT !.selectedDex = ord.selectedDex,
              !.raydiumQuote = ord.raydiumQuote,
              !.meteoraQuote = ord.meteoraQuote,
              !.executedPrice = ord.executedPrice]

\* the data of the route event
routeData(ord) ==
  [NoData EXCEPT !.selectedDex = ord.selectedDex,
                 !.raydiumQuote = ord.raydiumQuote,
                 !.meteoraQuote = ord.meteoraQuote]

\* (mutant) the building event is emitted before the route event
processOrderRoutedBuildFirst(ctx, quotes) ==
  LET c1 == [ctx EXCEPT !.order = routedOrder(@, quotes)]
  IN IF updateOrderMissing(c1.rec)
       THEN processOrderCatch(c1, "Order not found")
       ELSE emitStatusUpdate(
              updateOrderStatus([c1 EXCEPT !.rec = routedRecord(@, c1.order)],
                                "building", NoData),
              "routing", routeData(c1.order))

\* processOrder from the quotes' return to the await of delay(300)
processOrderRouted(ctx, quotes) ==
  LET c1 == [ctx EXCEPT !.order = routedOrder(@, quotes)]
  IN IF updateOrderMissing(c1.rec)
       THEN processOrderCatch(c1, "Order not found")
       ELSE updateOrderStatus(
              emitStatusUpdate([c1 EXCEPT !.rec = routedRecord(@, c1.order)],
                               "routing", routeData(c1.order)),
              "building", NoData)

\* processOrder from the end of delay(300) to the await of executeSwap
processOrderBuilt(ctx) == updateOrderStatus(ctx, "submitted", NoData)

\* the data of the confirmed event: txHash and executedPrice
confirmedData(result) ==
  [NoData EXCEPT !.txHash = result.txHash,
                 !.executedPrice = result.executedPrice]

\* processOrder from executeSwap's return to its own return or throw
processOrderSettled(ctx, result) ==
  IF result.raised \/ ~result.success
    THEN processOrderCatch(ctx, result.error)
    ELSE LET c1 == updateOrderStatus(ctx, "confirmed", confirmedData(result))
         IN IF c1.err # "none"
              THEN processOrderCatch(c1, c1.err)
            ELSE IF updateOrderMissing(c1.rec)
              THEN processOrderCatch(c1, "Order not found")
              ELSE [c1 EXCEPT !.rec.status = "confirmed",
                              !.rec.txHash = result.txHash,
                              !.rec.executedPrice = result.executedPrice,
                              !.rec.outputAmount = result.outputAmount]

\* the statuses at which the callback subscribed to order o throws
subscriberRaises(o) ==
  IF hub.stage = "attached" THEN raisesOn(hub.callback[o]) ELSE {}

Context(o, ord, attempt) ==
  [order |-> ord, rec |-> store[o], log |-> published[o],
   att |-> attempt, err |-> "none", raises |-> subscriberRaises(o)]

\* ------------------------------------------------------------ the queue

\* (mutant) a fixed retry delay, not doubling
backoffDelayFixed(attempts) == BackoffBase

\* the retry delay after a failed attempt
backoffDelay(attempts) == Pow2(attempts - 1) * BackoffBase

\* (mutant) the retry test off by one: a job at the maximum is retried
attemptsRemainOffByOne(attempts) == attempts <= MaxRetries

\* whether a failed attempt is retried
attemptsRemain(attempts) == attempts < MaxRetries

\* (mutant) the newest waiting job is taken instead of the oldest
popQueue(q) == [job |-> q[Len(q)], rest |-> SubSeq(q, 1, Len(q) - 1)]

\* queue.shift(): the job taken from the waiting list and the list left
shiftQueue(q) == [job |-> Head(q), rest |-> Tail(q)]

\* (mutant) the job is put at the front of the waiting list
unshiftQueue(q, j) == <<j>> \o q

\* queue.push(job): a job enters, or re-enters, the waiting list
pushQueue(q, j) == Append(q, j)

\* (mutant) the loop stops as soon as nothing is waiting
loopContinuesWhileWaiting(q, act) == Len(q) > 0

\* the condition of processQueue's outer loop
loopContinues(q, act) == Len(q) > 0 \/ act # {}

\* (mutant) the admission test off by one
RECURSIVE dispatchLoopOverCap(_, _, _)
dispatchLoopOverCap(q, act, started) ==
  IF Cardinality(act) <= Concurrency /\ Len(q) > 0
    THEN dispatchLoopOverCap(shiftQueue(q).rest, act \cup {shiftQueue(q).job},
                             Append(started, shiftQueue(q).job))
    ELSE [queue |-> q, active |-> act, started |-> started]

\* processQueue's inner loop: start waiting jobs while there is capacity
RECURSIVE dispatchLoop(_, _, _)
dispatchLoop(q, act, started) ==
  IF Cardinality(act) < Concurrency /\ Len(q) > 0
    THEN dispatchLoop(shiftQueue(q).rest, act \cup {shiftQueue(q).job},
                      Append(started, shiftQueue(q).job))
    ELSE [queue |-> q, active |-> act, started |-> started]

\* One pass of processQueue's inner loop over waiting list q, with job
\* records jb and order objects ob: every started job runs processJob up
\* to processOrder's await of the quotes.
dispatch(q, jb, ob) ==
  \E d \in {dispatchLoop(q, activeJobs, <<>>)} :
  \E begun \in {[j \in Range(d.started) |->
                   processOrderBegin(Context(j, ob[j], jb[j].attempts + 1))]} :
  LET S == Range(d.started)
  IN /\ queue' = d.queue
     /\ activeJobs' = d.active
     /\ job' = [j \in Orders |->
                 IF j \in S
                   THEN [jb[j] EXCEPT !.status = "active", !.attempts = @ + 1]
                   ELSE jb[j]]
     /\ order' = [j \in Orders |-> IF j \in S THEN begun[j].order ELSE ob[j]]
     /\ published' = [j \in Orders |->
                       IF j \in S THEN begun[j].log ELSE published[j]]
     /\ invocations' = [j \in Orders |->
                         IF j \in S THEN invocations[j] + 1 ELSE invocations[j]]
     /\ pc' = [j \in Orders |-> IF j \in S THEN "quoting" ELSE pc[j]]

\* (mutant) the job is only put in the waiting list; the processing loop
\* is never started by addOrder
addOrderOnlyQueues(o, ord) ==
  /\ queue' = pushQueue(queue, o)
  /\ job' = [job EXCEPT ![o] = [attempts |-> 0, status |-> "waiting",
                                error |-> "none"]]
  /\ order' = [order EXCEPT ![o] = ord]
  /\ UNCHANGED <<processing, loops, activeJobs, published, invocations, pc>>

\* addOrder, with the processQueue call it makes when no loop is running
addOrder(o, ord) ==
  LET jb == [job EXCEPT ![o] = [attempts |-> 0, status |-> "waiting",
                                error |-> "none"]]
      ob == [order EXCEPT ![o] = ord]
      q  == pushQueue(queue, o)
  IN IF ~processing
       THEN /\ processing' = TRUE
            /\ loops' = loops + 1
            /\ dispatch(q, jb, ob)
       ELSE /\ queue' = q
            /\ job' = jb
            /\ order' = ob
            /\ UNCHANGED <<processing, loops, activeJobs, published,
                           invocations, pc>>

\* (mutant) the active jobs are left out of the total
getStatsWithoutActive ==
  [waiting |-> Len(queue), active |-> Cardinality(activeJobs),
   completed |-> Len(completedJobs), failed |-> Len(failedJobs),
   total |-> Len(queue) + Len(completedJobs) + Len(failedJobs)]

\* getStats
getStats ==
  [waiting |-> Len(queue), active |-> Cardinality(activeJobs),
   completed |-> Len(completedJobs), failed |-> Len(failedJobs),
   total |-> Len(queue) + Cardinality(activeJobs)
               + Len(completedJobs) + Len(failedJobs)]

\* (mutant) the active jobs are searched too
getJobWithActive(orderId) ==
  IF orderId \in Range(queue) \cup activeJobs
                   \cup Range(completedJobs) \cup Range(failedJobs)
    THEN Some(job[orderId])
    ELSE None

\* getJob: the waiting list, the completed record and the failed record are
\* searched in turn
getJob(orderId) ==
  IF orderId \in Range(queue) THEN Some(job[orderId])
  ELSE IF orderId \in Range(completedJobs) THEN Some(job[orderId])
  ELSE IF orderId \in Range(failedJobs) THEN Some(job[orderId])
  ELSE None

\* the handler of POST /api/orders/execute past validation: the order is
\* created with a fresh id and status pending, stored, and handed to the
\* queue
acceptOrder(o, request) ==
  /\ store[o] = NoOrder
  /\ \A p \in Orders : p < o => store[p] # NoOrder
  /\ LET ord == newOrder(request)
     IN /\ store' = [store EXCEPT ![o] = createOrder(ord)]
        /\ addOrder(o, ord)
  /\ UNCHANGED <<completedJobs, failedJobs, timer, waited, ahead, closed,
                 router, hub, websocket>>

\* POST /api/orders/execute with the valid body every order of the engine
\* is submitted with
SubmitOrder(o) ==
  /\ acceptOrder(o, PipelineRequest)
  /\ UNCHANGED reply

\* the response of an HTTP request: the request answered (its body, or
\* the order id of its path), the status code, and the order id, error
\* fields or order record of the response body
Response(method, body, code, orderId, details, record) ==
  [method |-> method, request |-> body, code |-> code,
   orderId |-> orderId, details |-> details, order |-> record]

\* POST /api/orders/execute with any body: 400 with the faulty fields when
\* validation fails, otherwise the order is created and queued, and 201
PostOrder(body) ==
  \E v \in {validateCreateOrder(body)} :
    IF v.ok
      THEN \E o \in Orders :
             /\ acceptOrder(o, v.dto[1])
             /\ reply' = Response("POST", Some(body), 201, Some(o), {}, None)
      ELSE /\ reply' = Response("POST", Some(body), 400, None, v.errors, None)
           /\ UNCHANGED <<engine, router, hub, websocket>>

\* GET /api/orders/:orderId: 404 when the store has no such order,
\* otherwise 200 with the record
GetOrder(orderId) ==
  /\ \E found \in {getOrder(store, orderId)} :
       reply' = IF found = None
                  THEN Response("GET", None, 404, Some(orderId), {}, None)
                  ELSE Response("GET", None, 200, Some(orderId), {}, found)
  /\ UNCHANGED <<engine, router, hub, websocket>>

\* delay(100) of a processQueue call ends: the loop condition is tested
\* again
PollTick ==
  /\ loops > 0
  /\ IF loopContinues(queue, activeJobs)
       THEN /\ dispatch(queue, job, order)
            /\ UNCHANGED <<processing, loops>>
       ELSE /\ processing' = FALSE
            /\ loops' = loops - 1
            /\ UNCHANGED <<queue, activeJobs, job, order, published,
                           invocations, pc>>
  /\ UNCHANGED <<store, completedJobs, failedJobs, timer, waited, ahead,
                 closed, router, hub, reply, websocket>>

\* both quotes of getBestQuote have arrived
QuotesReturn(o) ==
  /\ pc[o] = "quoting"
  /\ \E draws \in PipelineDraws :
     \E quotes \in {getBestQuote(order[o].tokenIn, order[o].tokenOut,
                                 order[o].amountIn, draws.raydium,
                                 draws.meteora)} :
     \E c \in {processOrderRouted(Context(o, order[o], job[o].attempts),
                                  quotes)} :
       /\ order' = [order EXCEPT ![o] = c.order]
       /\ store' = [store EXCEPT ![o] = c.rec]
       /\ published' = [published EXCEPT ![o] = c.log]
       /\ pc' = [pc EXCEPT ![o] = "building"]
  /\ UNCHANGED <<job, queue, activeJobs, completedJobs, failedJobs,
                 processing, loops, timer, waited, invocations, ahead, closed,
                 router, hub, reply, websocket>>

\* delay(300) of processOrder ends
BuildDone(o) ==
  /\ pc[o] = "building"
  /\ \E c \in {processOrderBuilt(Context(o, order[o], job[o].attempts))} :
       /\ order' = [order EXCEPT ![o] = c.order]
       /\ published' = [published EXCEPT ![o] = c.log]
       /\ pc' = [pc EXCEPT ![o] = "swapping"]
  /\ UNCHANGED <<store, job, queue, activeJobs, completedJobs, failedJobs,
                 processing, loops, timer, waited, invocations, ahead, closed,
                 router, hub, reply, websocket>>

\* (mutant) a job that is to be retried gives up its slot when the attempt
\* fails, not when the backoff delay ends
processJobSettledFreesSlot(o, c) ==
  /\ order' = [order EXCEPT ![o] = c.order]
  /\ store' = [store EXCEPT ![o] = c.rec]
  /\ published' = [published EXCEPT ![o] = c.log]
  /\ IF c.err = "none"
       THEN /\ job' = [job EXCEPT ![o].status = "completed"]
            /\ completedJobs' = Append(completedJobs, o)
            /\ activeJobs' = activeJobs \ {o}
            /\ pc' = [pc EXCEPT ![o] = "done"]
            /\ UNCHANGED <<failedJobs, timer, waited>>
       ELSE IF attemptsRemain(job[o].attempts)
         THEN /\ pc' = [pc EXCEPT ![o] = "backoff"]
              /\ timer' = [timer EXCEPT ![o] = backoffDelay(job[o].attempts)]
              /\ waited' = [waited EXCEPT ![o] = 0]
              /\ activeJobs' = activeJobs \ {o}
              /\ UNCHANGED <<job, completedJobs, failedJobs>>
         ELSE /\ job' = [job EXCEPT ![o].status = "failed", ![o].error = c.err]
              /\ failedJobs' = Append(failedJobs, o)
              /\ activeJobs' = activeJobs \ {o}
              /\ pc' = [pc EXCEPT ![o] = "done"]
              /\ UNCHANGED <<completedJobs, timer, waited>>

\* (mutant) a completed job is recorded but keeps its place in the active
\* set
processJobSettledKeepsActive(o, c) ==
  /\ order' = [order EXCEPT ![o] = c.order]
  /\ store' = [store EXCEPT ![o] = c.rec]
  /\ published' = [published EXCEPT ![o] = c.log]
  /\ IF c.err = "none"
       THEN /\ job' = [job EXCEPT ![o].status = "completed"]
            /\ completedJobs' = Append(completedJobs, o)
            /\ pc' = [pc EXCEPT ![o] = "done"]
            /\ UNCHANGED <<activeJobs, failedJobs, timer, waited>>
       ELSE IF attemptsRemain(job[o].attempts)
         THEN /\ pc' = [pc EXCEPT ![o] = "backoff"]
              /\ timer' = [timer EXCEPT ![o] = backoffDelay(job[o].attempts)]
              /\ waited' = [waited EXCEPT ![o] = 0]
              /\ UNCHANGED <<job, completedJobs, failedJobs, activeJobs>>
         ELSE /\ job' = [job EXCEPT ![o].status = "failed", ![o].error = c.err]
              /\ failedJobs' = Append(failedJobs, o)
              /\ activeJobs' = activeJobs \ {o}
              /\ pc' = [pc EXCEPT ![o] = "done"]
              /\ UNCHANGED <<completedJobs, timer, waited>>

\* processJob after processOrder returned (err = "none") or threw
processJobSettled(o, c) ==
  /\ order' = [order EXCEPT ![o] = c.order]
  /\ store' = [store EXCEPT ![o] = c.rec]
  /\ published' = [published EXCEPT ![o] = c.log]
  /\ IF c.err = "none"
       THEN /\ job' = [job EXCEPT ![o].status = "completed"]
            /\ completedJobs' = Append(completedJobs, o)
            /\ activeJobs' = activeJobs \ {o}
            /\ pc' = [pc EXCEPT ![o] = "done"]
            /\ UNCHANGED <<failedJobs, timer, waited>>
       ELSE IF attemptsRemain(job[o].attempts)
         THEN /\ pc' = [pc EXCEPT ![o] = "backoff"]
              /\ timer' = [timer EXCEPT ![o] = backoffDelay(job[o].attempts)]
              /\ waited' = [waited EXCEPT ![o] = 0]
              /\ UNCHANGED <<job, completedJobs, failedJobs, activeJobs>>
         ELSE /\ job' = [job EXCEPT ![o].status = "failed", ![o].error = c.err]
              /\ failedJobs' = Append(failedJobs, o)
              /\ activeJobs' = activeJobs \ {o}
              /\ pc' = [pc EXCEPT ![o] = "done"]
              /\ UNCHANGED <<completedJobs, timer, waited>>

\* executeSwap's network delay ends
SwapReturns(o) ==
  /\ pc[o] = "swapping"
  /\ \E draws \in PipelineSwapDraws :
     \E result \in {executeSwap(order[o].selectedDex, order[o], draws)} :
     \E c \in {processOrderSettled(Context(o, order[o], job[o].attempts),
                                   result)} :
       processJobSettled(o, c)
  /\ UNCHANGED <<queue, processing, loops, invocations, ahead, closed,
                 router, hub, reply, websocket>>

\* one BackoffBase of time passes while some backoff delay is running
Advance ==
  /\ \E o \in Orders : timer[o] > 0
  /\ timer' = [o \in Orders |->
                IF timer[o] > 0 THEN timer[o] - BackoffBase ELSE timer[o]]
  /\ waited' = [o \in Orders |->
                 IF timer[o] > 0 THEN waited[o] + BackoffBase ELSE waited[o]]
  /\ UNCHANGED <<store, order, job, queue, activeJobs, completedJobs,
                 failedJobs, processing, loops, pc, published, invocations,
                 ahead, closed, router, hub, reply, websocket>>

\* the backoff delay of processJob ends: the job re-enters the waiting list
BackoffExpire(o) ==
  /\ pc[o] = "backoff"
  /\ timer[o] <= 0
  /\ job' = [job EXCEPT ![o].status = "waiting"]
  /\ queue' = pushQueue(queue, o)
  /\ activeJobs' = activeJobs \ {o}
  /\ pc' = [pc EXCEPT ![o] = "idle"]
  /\ ahead' = [ahead EXCEPT ![o] =
                 [at |-> job[o].attempts,
                  before |-> [i \in Range(queue) |-> job[i].attempts]]]
  /\ UNCHANGED <<store, order, completedJobs, failedJobs, processing, loops,
                 timer, waited, published, invocations, closed, router, hub, reply, websocket>>

\* (mutant) close() leaves the waiting list as it is
CloseKeepsWaiting ==
  /\ ~closed
  /\ closed' = TRUE
  /\ processing' = FALSE
  /\ activeJobs' = {}
  /\ UNCHANGED <<store, order, job, queue, completedJobs, failedJobs, loops,
                 pc, timer, waited, published, invocations, ahead, router,
                 hub, reply, websocket>>

\* close()
Close ==
  /\ ~closed
  /\ closed' = TRUE
  /\ processing' = FALSE
  /\ queue' = <<>>
  /\ activeJobs' = {}
  /\ UNCHANGED <<store, order, job, completedJobs, failedJobs, loops, pc,
                 timer, waited, published, invocations, ahead, router, hub, reply, websocket>>

\* the venue router taken alone: getBestQuote is called for the request
RouterQuotes ==
  /\ router.stage = "request"
  /\ \E quotes \in {getBestQuote(router.request.tokenIn,
                                 router.request.tokenOut,
                                 router.request.amountIn,
                                 router.draws.raydium,
                                 router.draws.meteora)} :
       router' = [router EXCEPT !.stage = "quoted", !.quotes = Some(quotes)]
  /\ UNCHANGED <<engine, hub, reply, websocket>>

\* the venue router taken alone: executeSwap is called on the selected
\* venue for the order carrying the routed price
RouterSwap ==
  /\ router.stage = "quoted"
  /\ \E ord \in {routedOrder(newOrder(router.request), router.quotes[1])} :
     \E result \in {executeSwap(ord.selectedDex, ord, router.draws.swap)} :
       router' = [router EXCEPT !.stage = "settled",
                                !.routed = Some(ord),
                                !.result = Some(result)]
  /\ UNCHANGED <<engine, hub, reply, websocket>>

\* the router is not called on its own while the engine is observed
RouterIdle == [stage |-> "idle"]

\* the requests and draws of the router's call sequences
RouterCalls ==
  {[stage |-> "request",
    request |-> [type |-> "market", tokenIn |-> pair[1], tokenOut |-> pair[2],
                 amountIn |-> amount, slippage |-> slippage],
    draws |-> [raydium |-> rd, meteora |-> md,
               swap |-> [fail |-> fd, slip |-> sd, hash |-> hd]],
    quotes |-> None, routed |-> None, result |-> None] :
     pair \in TokenPairs, amount \in Amounts, slippage \in Slippages,
     rd \in RaydiumDraws, md \in MeteoraDraws,
     fd \in FailDraws, sd \in SlipDraws, hd \in HashDraws}

\* ------------------------------------------------------ the event hub
\* ExecutionService is an EventEmitter: a channel holds its listeners in
\* registration order, and emit calls them synchronously in that order.

\* subscriptions, events and unsubscribe calls in a run of the hub
MaxSubscriptions == 2
MaxEvents == 2
MaxUnsubscribes == 2

\* the order ids events are published for, and the ids a caller may
\* subscribe to (the id of the stream URL is any string)
PublishedIds == {"a", "b"}
SubscribeIds == {"a", "update"}

\* the callbacks: "quiet" returns, "raising" throws when it is called
Callbacks == {"quiet", "raising"}
throws(callback) == callback = "raising"

\* the channel of an order, and the channel every event is also emitted on
Channel(orderId) == "order:" \o orderId
GlobalChannel == "order:update"
Channels ==
  {Channel(x) : x \in SubscribeIds \cup PublishedIds} \cup {GlobalChannel}

\* this.on(channel, listener)
on(list, listener) == Append(list, listener)

\* (mutant) every listener of the channel is removed
offAll(list, listener) == <<>>

\* this.off(channel, listener): the listener is removed if it is there
off(list, listener) ==
  LET keep(l) == l # listener
  IN SelectSeq(list, keep)

\* emit(channel, event): the listeners registered at the call are called in
\* order with the event; a listener that throws ends the call, and the
\* error leaves emit.  h is the hub, ls the listeners still to call.
RECURSIVE emit(_, _, _)
emit(h, ls, event) ==
  IF ls = <<>>
    THEN h
    ELSE LET called == [h EXCEPT !.received[Head(ls)] = Append(@, event)]
         IN IF throws(h.subs[Head(ls)].callback)
              THEN [called EXCEPT !.raised = @ \cup {event.n}]
              ELSE emit(called, Tail(ls), event)

\* emitStatusUpdate: the event is emitted on the order's channel, then on
\* the global channel
emitStatusUpdateOnHub(h, event) ==
  LET first == emit(h, h.listeners[Channel(event.orderId)], event)
  IN IF event.n \in first.raised
       THEN first
       ELSE emit(first, first.listeners[GlobalChannel], event)

\* the subscriptions that are registered on the channel of order id x
registeredFor(h, x) ==
  {i \in 1..Len(h.subs) :
     /\ h.subs[i].orderId = x
     /\ i \in Range(h.listeners[Channel(x)])}

\* subscribeToOrder(orderId, callback): a new listener wrapping the
\* callback is registered on the order's channel
HubSubscribe(x, callback) ==
  /\ hub.stage = "open"
  /\ Len(hub.subs) < MaxSubscriptions
  /\ LET i == Len(hub.subs) + 1
     IN hub' = [hub EXCEPT
                  !.subs = Append(@, [orderId |-> x, callback |-> callback,
                                      unsubscribed |-> 0]),
                  !.listeners[Channel(x)] = on(@, i),
                  !.received = Append(@, <<>>),
                  !.due = Append(@, <<>>)]
  /\ UNCHANGED <<engine, router, reply, websocket>>

\* the unsubscribe of subscription i is called
HubUnsubscribe(i) ==
  /\ hub.stage = "open"
  /\ i \in 1..Len(hub.subs)
  /\ hub.subs[i].unsubscribed < MaxUnsubscribes
  /\ hub' = [hub EXCEPT
               !.subs[i].unsubscribed = @ + 1,
               !.listeners[Channel(hub.subs[i].orderId)] = off(@, i)]
  /\ UNCHANGED <<engine, router, reply, websocket>>

\* a status update of order x is emitted; due records, for every
\* subscription registered for x now, that the event is owed to it
HubPublish(x) ==
  /\ hub.stage = "open"
  /\ hub.published < MaxEvents
  /\ \E event \in {[orderId |-> x, n |-> hub.published + 1]} :
     \E owed \in {[hub EXCEPT
                     !.published = @ + 1,
                     !.due = [i \in 1..Len(hub.subs) |->
                                IF i \in registeredFor(hub, x)
                                  THEN Append(hub.due[i], event)
                                  ELSE hub.due[i]]]} :
       hub' = emitStatusUpdateOnHub(owed, event)
  /\ UNCHANGED <<engine, router, reply, websocket>>

\* the hub is not observed on its own while the engine is
HubIdle == [stage |-> "idle"]

\* the hub with no listener
HubOpen ==
  [stage |-> "open",
   listeners |-> [c \in Channels |-> <<>>],
   subs |-> <<>>, received |-> <<>>, due |-> <<>>,
   published |-> 0, raised |-> {}]

\* ------------------------------------------------- the WebSocket service
\* WebSocketService taken alone: connections is its map from order id to
\* connection; sockets are the connection objects ever handed to register,
\* each with its readyState (0 before it is opened, 1 open, 2 closing,
\* 3 closed), the order id its close listener was registered with, and the
\* number of messages sent on it.

\* number of connections opened in a run
MaxConnections == 3
\* number of sendUpdate calls in a run
MaxUpdates == 2

Connections == 1..MaxConnections

\* the order ids connections are opened for
SocketOrderIds == {"a", "b"}

\* no entry of the connections map
NoConnection == 0

\* the service is not observed on its own while the engine is
SocketsIdle == [stage |-> "idle"]

\* the service with no connection registered
SocketsOpen ==
  [stage |-> "open",
   connections |-> [x \in SocketOrderIds |-> NoConnection],
   sockets |-> [k \in Connections |->
                  [readyState |-> 0, orderId |-> "none", received |-> 0]],
   updates |-> 0]

\* register: the connection replaces the entry of the order id
register(w, orderId, k) ==
  [w EXCEPT !.connections[orderId] = k,
            !.sockets[k] = [readyState |-> 1, orderId |-> orderId,
                            received |-> 0]]

\* the close listener register attaches to a connection: it deletes the
\* entry of the order id the connection was registered with
onClose(w, k) ==
  [w EXCEPT !.sockets[k].readyState = 3,
            !.connections[w.sockets[k].orderId] = NoConnection]

\* sendUpdate: the message goes to the registered connection if it is open
sendUpdate(w, orderId) ==
  LET k == w.connections[orderId]
  IN IF k # NoConnection /\ w.sockets[k].readyState = 1
       THEN [w EXCEPT !.sockets[k].received = @ + 1, !.updates = @ + 1]
       ELSE [w EXCEPT !.updates = @ + 1]

\* close: the registered connection is told to close and its entry is
\* deleted; the socket's close event follows later
close(w, orderId) ==
  LET k == w.connections[orderId]
  IN [w EXCEPT !.sockets[k].readyState = IF @ = 1 THEN 2 ELSE @,
               !.connections[orderId] = NoConnection]

\* GET /ws/orders/:orderId: a client opens the next connection for an order
SocketRegister(orderId) ==
  /\ \E k \in Connections :
       /\ websocket.sockets[k].readyState = 0
       /\ \A j \in Connections : j < k => websocket.sockets[j].readyState # 0
       /\ websocket' = register(websocket, orderId, k)
  /\ UNCHANGED <<engine, router, hub, reply>>

\* the close event of a connection: the client went away, or the closing
\* started by close() has ended
SocketClosed(k) ==
  /\ websocket.sockets[k].readyState \in {1, 2}
  /\ websocket' = onClose(websocket, k)
  /\ UNCHANGED <<engine, router, hub, reply>>

\* sendUpdate is called for an order
SocketSendUpdate(orderId) ==
  /\ websocket.updates < MaxUpdates
  /\ websocket' = sendUpdate(websocket, orderId)
  /\ UNCHANGED <<engine, router, hub, reply>>

\* close is called for an order that has a connection registered
SocketServiceClose(orderId) ==
  /\ websocket.connections[orderId] # NoConnection
  /\ websocket' = close(websocket, orderId)
  /\ UNCHANGED <<engine, router, hub, reply>>

InitEngine ==
  /\ store = [o \in Orders |-> NoOrder]
  /\ order = [o \in Orders |-> NoOrder]
  /\ job = [o \in Orders |-> NoJob]
  /\ queue = <<>>
  /\ activeJobs = {}
  /\ completedJobs = <<>>
  /\ failedJobs = <<>>
  /\ processing = FALSE
  /\ loops = 0
  /\ pc = [o \in Orders |-> "idle"]
  /\ timer = [o \in Orders |-> 0]
  /\ waited = [o \in Orders |-> 0]
  /\ published = [o \in Orders |-> <<>>]
  /\ invocations = [o \in Orders |-> 0]
  /\ ahead = [o \in Orders |-> [at |-> 0, before |-> <<>>]]
  /\ closed = FALSE

\* no HTTP request has been answered
NoReply == Response("none", None, 0, None, {}, None)

Init ==
  /\ InitEngine
  /\ router = RouterIdle
  /\ hub = HubIdle
  /\ reply = NoReply
  /\ websocket = SocketsIdle

InitRouter ==
  /\ InitEngine
  /\ router \in RouterCalls
  /\ hub = HubIdle
  /\ reply = NoReply
  /\ websocket = SocketsIdle

InitHub ==
  /\ InitEngine
  /\ router = RouterIdle
  /\ hub = HubOpen
  /\ reply = NoReply
  /\ websocket = SocketsIdle

\* the engine with a callback, or none, subscribed to the channel of each
\* order before the order is submitted
InitSubscribed ==
  /\ InitEngine
  /\ router = RouterIdle
  /\ reply = NoReply
  /\ hub \in {[stage |-> "attached", callback |-> cb] :
                cb \in [Orders -> SubscriberCallbacks]}
  /\ websocket = SocketsIdle

InitSockets ==
  /\ InitEngine
  /\ router = RouterIdle
  /\ hub = HubIdle
  /\ reply = NoReply
  /\ websocket = SocketsOpen

\* The engine in service: orders are submitted and processed, and close()
\* (called by gracefulShutdown only) is not called.
Next ==
  \/ \E o \in Orders : SubmitOrder(o)
  \/ PollTick
  \/ \E o \in Orders : QuotesReturn(o)
  \/ \E o \in Orders : BuildDone(o)
  \/ \E o \in Orders : SwapReturns(o)
  \/ Advance
  \/ \E o \in Orders : BackoffExpire(o)

Spec == Init /\ [][Next]_vars

\* The engine with close() called at any moment, at most once.
\* gracefulShutdown closes the HTTP server before it closes the queue, so
\* no order is submitted after close().
NextShutdown ==
  \/ \E o \in Orders : ~closed /\ SubmitOrder(o)
  \/ PollTick
  \/ \E o \in Orders : QuotesReturn(o)
  \/ \E o \in Orders : BuildDone(o)
  \/ \E o \in Orders : SwapReturns(o)
  \/ Advance
  \/ \E o \in Orders : BackoffExpire(o)
  \/ Close

SpecShutdown == Init /\ [][NextShutdown]_vars

\* The queue service taken as a component: addOrder and close() are
\* called in any order, close() at most once.
NextQueue ==
  \/ \E o \in Orders : SubmitOrder(o)
  \/ PollTick
  \/ \E o \in Orders : QuotesReturn(o)
  \/ \E o \in Orders : BuildDone(o)
  \/ \E o \in Orders : SwapReturns(o)
  \/ Advance
  \/ \E o \in Orders : BackoffExpire(o)
  \/ Close

SpecQueue == Init /\ [][NextQueue]_vars

\* A step of the engine itself: some delay (the poll delay, a quote, the
\* build delay, a settlement, a backoff) ends, or time passes.
TimerStep ==
  \/ PollTick
  \/ Advance
  \/ \E o \in Orders : QuotesReturn(o)
  \/ \E o \in Orders : BuildDone(o)
  \/ \E o \in Orders : SwapReturns(o)
  \/ \E o \in Orders : BackoffExpire(o)

\* setTimeout: a delay that has been started eventually ends. Submissions
\* are the environment's and are not forced.
Fairness == WF_vars(TimerStep)

SpecLive == Init /\ [][Next]_vars /\ Fairness

\* The venue router taken alone, on every request and draw of RouterCalls.
NextRouter ==
  \/ RouterQuotes
  \/ RouterSwap

SpecRouter == InitRouter /\ [][NextRouter]_vars

\* The event hub taken alone: callbacks subscribe and unsubscribe, and
\* status updates are emitted.
NextHub ==
  \/ \E x \in SubscribeIds, callback \in Callbacks : HubSubscribe(x, callback)
  \/ \E i \in 1..MaxSubscriptions : HubUnsubscribe(i)
  \/ \E x \in PublishedIds : HubPublish(x)

SpecHub == InitHub /\ [][NextHub]_vars

\* The engine in service with subscribers on the orders' channels.
SpecSubscribed == InitSubscribed /\ [][Next]_vars

\* The WebSocket service taken alone: clients connect and go away, updates
\* are sent, and connections are closed by the service.
NextSockets ==
  \/ \E orderId \in SocketOrderIds : SocketRegister(orderId)
  \/ \E k \in Connections : SocketClosed(k)
  \/ \E orderId \in SocketOrderIds : SocketSendUpdate(orderId)
  \/ \E orderId \in SocketOrderIds : SocketServiceClose(orderId)

SpecSockets == InitSockets /\ [][NextSockets]_vars

\* The HTTP handlers over the engine, observed while no backoff delay
\* expires: orders are posted with any body and looked up, and the
\* attempts of the accepted ones run.
NextApi ==
  \/ \E body \in Bodies : PostOrder(body)
  \/ \E orderId \in Orders : GetOrder(orderId)
  \/ PollTick
  \/ \E o \in Orders : QuotesReturn(o)
  \/ \E o \in Orders : BuildDone(o)
  \/ \E o \in Orders : SwapReturns(o)

SpecApi == Init /\ [][NextApi]_vars

\* ------------------------------------------------------------ claims

Terminal == {"confirmed", "failed"}

\* C1: the active set never holds more jobs than the concurrency limit.
ConcurrencyCap == Cardinality(activeJobs) <= Concurrency

\* C1 witness: the limit is reached while a job is held back waiting.
ConcurrencyCapWitness ==
  Cardinality(activeJobs) = Concurrency /\ Len(queue) > 0

\* the terminal outcome of an order: completed with the order confirmed, or
\* permanently failed with the order failed, within the maximum attempts
Settled(o) ==
  /\ job[o].attempts <= MaxRetries
  /\ pc[o] = "done"
  /\ \/ /\ job[o].status = "completed"
        /\ o \in Range(completedJobs)
        /\ order[o].status = "confirmed"
     \/ /\ job[o].status = "failed"
        /\ o \in Range(failedJobs)
        /\ order[o].status = "failed"

\* C2: every order handed to addOrder eventually reaches its terminal
\* outcome, completed or permanently failed, and keeps it: from some moment
\* on, every order that was enqueued is settled.
EveryOrderSettles ==
  <>[](\A o \in Orders : job[o].status # "none" => Settled(o))

\* C2 witness: one order completed on a retry and another failed
\* permanently, after which the processing loop has stopped.
EveryOrderSettlesWitness ==
  /\ ~processing
  /\ loops = 0
  /\ \E o \in Orders :
       Settled(o) /\ job[o].status = "completed" /\ job[o].attempts > 1
  /\ \E o \in Orders : Settled(o) /\ job[o].status = "failed"

\* the waiting list the dispatch of a step works on: the list before the
\* step, with the order the step enqueues, if any, at its back
WaitingAtDispatch ==
  LET new == {o \in Orders : job[o].status = "none" /\ job'[o].status # "none"}
  IN IF new = {} THEN queue ELSE Append(queue, CHOOSE o \in new : TRUE)

StartedInStep(o) == job'[o].attempts = job[o].attempts + 1

\* C3: a job is started only together with, or after, every job that
\* entered the waiting list before it: no step starts a job and leaves an
\* older waiting job unstarted.
FifoAdmission ==
  [][\A i \in 1..Len(WaitingAtDispatch) :
       StartedInStep(WaitingAtDispatch[i]) =>
         \A k \in 1..(i - 1) : StartedInStep(WaitingAtDispatch[k])]_vars

\* C3 witness: a job that was waiting when a retried job re-entered behind
\* it has been started while the retried job is still waiting.
FifoAdmissionWitness ==
  \E o \in Orders, w \in Orders :
    /\ o \in DOMAIN ahead[w].before
    /\ job[o].attempts > ahead[w].before[o]
    /\ pc[o] = "quoting"
    /\ w \in Range(queue)
    /\ job[w].attempts = ahead[w].at

\* the positions of published[o] that hold an event of status st
EventsOf(o, st) == {i \in 1..Len(published[o]) : published[o][i].status = st}

\* the number of times o is recorded in the list of jobs js
Occurrences(js, o) == Cardinality({i \in 1..Len(js) : js[i] = o})

\* C4: no job is attempted more than MaxRetries times and the coordinator
\* is invoked once per attempt; an order whose settlement failed MaxRetries
\* times is recorded permanently failed, once, with exactly MaxRetries
\* attempts and invocations, the error of its last failed event, and the
\* order failed; nothing else is recorded failed.
RetryBound ==
  \A o \in Orders :
    /\ job[o].attempts <= MaxRetries
    /\ invocations[o] = job[o].attempts
    /\ Cardinality(EventsOf(o, "failed")) = MaxRetries
         <=> job[o].status = "failed"
    /\ job[o].status = "failed" <=> o \in Range(failedJobs)
    /\ job[o].status = "failed" =>
         /\ job[o].attempts = MaxRetries
         /\ invocations[o] = MaxRetries
         /\ Occurrences(failedJobs, o) = 1
         /\ order[o].status = "failed"
         /\ job[o].error # "none"
         /\ job[o].error = published[o][Len(published[o])].data.error

\* C4 witness: an order has been recorded permanently failed.
RetryBoundWitness ==
  \E o \in Orders : job[o].status = "failed" /\ o \in Range(failedJobs)

\* C5: a job in backoff after its k-th failed attempt (k below the maximum)
\* is not in the waiting list and was given a delay of 1000 * 2^(k-1) ms;
\* once it is back in the waiting list, exactly that delay has elapsed:
\* 1000 ms after the first failure, 2000 ms after the second.
BackoffSchedule ==
  \A o \in Orders :
    /\ pc[o] = "backoff" =>
         /\ job[o].attempts < MaxRetries
         /\ o \notin Range(queue)
         /\ waited[o] + timer[o] = 1000 * Pow2(job[o].attempts - 1)
    /\ (o \in Range(queue) /\ job[o].attempts >= 1) =>
         /\ waited[o] = 1000 * Pow2(job[o].attempts - 1)
         /\ job[o].attempts = 1 => waited[o] = 1000
         /\ job[o].attempts = 2 => waited[o] = 2000

\* C5 witness: a job is back in the waiting list after its second failure.
BackoffScheduleWitness ==
  \E o \in Orders :
    o \in Range(queue) /\ job[o].attempts = 2 /\ waited[o] = 2000

\* C6: once a retried job has started its next attempt, every job it found
\* in the waiting list when it re-entered has been started since.
RetryGoesToBack ==
  \A j \in Orders :
    (ahead[j].at > 0 /\ job[j].attempts > ahead[j].at) =>
      \A i \in DOMAIN ahead[j].before :
        job[i].attempts > ahead[j].before[i]

\* C6 witness: a retried job that re-entered behind a waiting order has
\* started its next attempt.
RetryGoesToBackWitness ==
  \E j \in Orders :
    /\ ahead[j].at > 0
    /\ job[j].attempts > ahead[j].at
    /\ DOMAIN ahead[j].before # {}

\* the statuses of the events published for o in its attempt a, in order
AttemptStatuses(o, a) ==
  LET InAttempt(e) == e.attempt = a
      events == SelectSeq(published[o], InAttempt)
  IN [i \in 1..Len(events) |-> events[i].status]

\* s runs through steps in order, each once, up to some point, and may end
\* there with failed, or after all of them with confirmed
InSequence(s, steps) ==
  \E n \in 0..Len(steps) :
    \/ s = SubSeq(steps, 1, n)
    \/ s = Append(SubSeq(steps, 1, n), "failed")
    \/ n = Len(steps) /\ s = Append(steps, "confirmed")

\* C7 as claimed: the events of one attempt follow pending, routing,
\* building, submitted, then confirmed or failed, no status twice.
AttemptEventsOnceEach ==
  \A o \in Orders : \A a \in 1..MaxRetries :
    InSequence(AttemptStatuses(o, a),
               <<"pending", "routing", "building", "submitted">>)

\* the statuses processOrder publishes before the terminal one: routing is
\* published when quoting begins and again with the selected route
AttemptSteps == <<"pending", "routing", "routing", "building", "submitted">>

\* C7 as amended: the events of one attempt follow pending, routing,
\* routing, building, submitted, then confirmed or failed; never out of
\* order, and no status but routing twice.
AttemptEventsInOrder ==
  \A o \in Orders : \A a \in 1..MaxRetries :
    InSequence(AttemptStatuses(o, a), AttemptSteps)

\* C7 witness: an order whose first attempt ran to failed and whose second
\* attempt ran to confirmed.
AttemptEventsInOrderWitness ==
  \E o \in Orders :
    /\ AttemptStatuses(o, 1) = Append(AttemptSteps, "failed")
    /\ AttemptStatuses(o, 2) = Append(AttemptSteps, "confirmed")

Rank(st) ==
  CASE st = "pending" -> 1
    [] st = "routing" -> 2
    [] st = "building" -> 3
    [] st = "submitted" -> 4
    [] OTHER -> 5

\* C8 as claimed: over the whole life of an order, no status is written
\* after confirmed or failed and the status never moves back (seen is the
\* order's status at each event, and every write is followed by an event).
StatusOnlyAdvances ==
  \A o \in Orders : \A i \in 1..(Len(published[o]) - 1) :
    /\ published[o][i].seen \notin Terminal
    /\ Rank(published[o][i + 1].seen) >= Rank(published[o][i].seen)

\* C9 as claimed: at most one terminal event is ever published for an
\* order, and a settled order has had exactly one.
OneTerminalEvent ==
  \A o \in Orders :
    LET n == Cardinality(EventsOf(o, "confirmed") \cup EventsOf(o, "failed"))
    IN n <= 1 /\ (Settled(o) => n = 1)

\* C10: every event was published with the order's status already equal to
\* the event's status.
WriteBeforeEmit ==
  \A o \in Orders : \A i \in 1..Len(published[o]) :
    published[o][i].seen = published[o][i].status

\* C10 witness: an order's events have run from pending to confirmed.
WriteBeforeEmitWitness ==
  \E o \in Orders :
    /\ Len(published[o]) >= Len(AttemptSteps) + 1
    /\ published[o][1].status = "pending"
    /\ published[o][Len(published[o])].status = "confirmed"
    /\ order[o].status = "confirmed"

\* C11: at the moment any status event of an order is published, the order
\* as order lookup returns it (the stored record) already has the status of
\* the event.  The coordinator writes each status on the order object only;
\* the stored record is written at confirmed and failed alone, and after the
\* event: a lookup made on receiving routing still returns pending.
LookupMatchesEvent ==
  \A o \in Orders : \A i \in 1..Len(published[o]) :
    published[o][i].stored = published[o][i].status

\* C12: the coordinator never swallows a failure.  A job recorded completed
\* has its order confirmed, with confirmed the last event published; a job
\* recorded permanently failed, or waiting out a backoff, has its order
\* failed, with the last event published a failed event carrying the error
\* message; and every attempt that has ended closed with one of the two.
LastEvent(o) == published[o][Len(published[o])]

FailureRaised(o) ==
  /\ order[o].status = "failed"
  /\ Len(published[o]) > 0
  /\ LastEvent(o).status = "failed"
  /\ LastEvent(o).data.error # "none"

NeverSwallowsFailure ==
  \A o \in Orders :
    /\ job[o].status = "completed" =>
         /\ order[o].status = "confirmed"
         /\ LastEvent(o).status = "confirmed"
    /\ job[o].status = "failed" =>
         /\ FailureRaised(o)
         /\ job[o].error = LastEvent(o).data.error
    /\ pc[o] = "backoff" => FailureRaised(o)
    /\ \A a \in 1..(job[o].attempts - 1) :
         LET sts == AttemptStatuses(o, a)
         IN Len(sts) > 0 /\ sts[Len(sts)] = "failed"

NeverSwallowsFailureWitness ==
  \E o, p \in Orders :
    /\ job[o].status = "completed"
    /\ job[p].status = "failed"
    /\ job[o].attempts > 1

\* C13 as claimed: a retry restarts the order at routing, so the first
\* event of every attempt after the first is routing, and pending is
\* published by the first attempt only.
RetryStartsAtRouting ==
  \A o \in Orders :
    /\ \A a \in 2..MaxRetries :
         Len(AttemptStatuses(o, a)) > 0 => AttemptStatuses(o, a)[1] = "routing"
    /\ \A i \in EventsOf(o, "pending") : published[o][i].attempt = 1

\* a failed attempt of o has ended and its retry has not begun
AwaitingRetry(o) ==
  /\ job[o].attempts >= 1
  /\ \/ pc[o] = "backoff"
     \/ pc[o] = "idle" /\ job[o].status = "waiting"

\* C13, amended: between a failed attempt and the start of the retry the
\* order's status stays failed, and every attempt, the retries included,
\* begins by writing and publishing pending, then routing.
RetryStartsAtPending ==
  \A o \in Orders :
    /\ AwaitingRetry(o) => order[o].status = "failed"
    /\ \A a \in 2..MaxRetries :
         LET InAttempt(e) == e.attempt = a
             events == SelectSeq(published[o], InAttempt)
         IN Len(events) > 0 =>
              /\ events[1].status = "pending"
              /\ events[1].seen = "pending"
              /\ Len(events) > 1
              /\ events[2].status = "routing"
              /\ events[2].seen = "routing"

RetryStartsAtPendingWitness ==
  \E o \in Orders :
    /\ job[o].attempts = 3
    /\ Len(AttemptStatuses(o, 3)) > 1
    /\ \E p \in Orders : AwaitingRetry(p)

\* ------------------------------------------- the venue router taken alone

RouterQuoted == router.stage \in {"quoted", "settled"}
RouterSettled == router.stage = "settled"

Max(a, b) == IF a > b THEN a ELSE b

\* C14: getBestQuote returns both venues' quotes as the venues produced
\* them, and a best quote that is one of the two and whose estimatedOutput
\* (the output net of the fee) is the larger of the two.
BestVenueSelection ==
  RouterQuoted =>
    LET q == router.quotes[1]
        r == router.request
    IN /\ q.raydium = getRaydiumQuote(r.tokenIn, r.tokenOut, r.amountIn,
                                      router.draws.raydium)
       /\ q.meteora = getMeteorQuote(r.tokenIn, r.tokenOut, r.amountIn,
                                     router.draws.meteora)
       /\ q.raydium.dex = "raydium"
       /\ q.meteora.dex = "meteora"
       /\ q.best \in {q.raydium, q.meteora}
       /\ q.best.estimatedOutput =
            Max(q.raydium.estimatedOutput, q.meteora.estimatedOutput)

\* the best quote has the lower raw price and the higher net output
BestVenueSelectionWitness ==
  /\ RouterQuoted
  /\ router.quotes[1].best.dex = "meteora"
  /\ router.quotes[1].meteora.price < router.quotes[1].raydium.price
  /\ router.quotes[1].meteora.estimatedOutput
       > router.quotes[1].raydium.estimatedOutput

RouterTie ==
  /\ RouterQuoted
  /\ router.quotes[1].raydium.estimatedOutput
       = router.quotes[1].meteora.estimatedOutput

\* C15 as claimed: on exactly equal estimated outputs getBestQuote selects
\* raydium, the venue listed and quoted first.
TieSelectsRaydium == RouterTie => router.quotes[1].best.dex = "raydium"

\* C15, amended: on exactly equal estimated outputs getBestQuote always
\* selects meteora, the venue compared second; raydium is selected only
\* when its estimated output is strictly higher.
TieSelectsMeteora ==
  RouterQuoted =>
    LET q == router.quotes[1]
    IN /\ RouterTie => q.best = q.meteora
       /\ q.best.dex = "raydium" <=>
            q.raydium.estimatedOutput > q.meteora.estimatedOutput

TieSelectsMeteoraWitness ==
  /\ RouterTie
  /\ router.quotes[1].raydium.price # router.quotes[1].meteora.price

\* a quote of a venue for request r is well-formed: the venue's fee, a
\* positive price that is the pair's base price (1.00 to 1.99) times a
\* variance of the venue's range, and the output amount * price * (1 - fee)
WellFormed(q, r, fee, low, high) ==
  LET base == calculateBasePrice(r.tokenIn, r.tokenOut)
  IN /\ q.fee = fee
     /\ q.price > 0
     /\ q.estimatedOutput > 0
     /\ q.estimatedOutput = r.amountIn * q.price * (1000 - q.fee)
     /\ base >= 100 /\ base <= 199
     /\ q.price % base = 0
     /\ q.price \div base >= low
     /\ q.price \div base < high

\* C16: each venue's quote has the venue's fixed fee (raydium 0.003,
\* meteora 0.002), a positive price and a positive estimated output equal
\* to amount * price * (1 - fee); the price is base * variance, base the
\* pair's price in 1.00..1.99 and variance in [0.98, 1.02) for raydium and
\* [0.97, 1.02) for meteora.
QuoteWellFormed ==
  RouterQuoted =>
    /\ WellFormed(router.quotes[1].raydium, router.request, 3, 980, 1020)
    /\ WellFormed(router.quotes[1].meteora, router.request, 2, 970, 1020)

\* both ends of the ranges: base 1.99 with the highest variances, and base
\* 1.00 with the lowest, and a pair whose hash is negative
QuoteWellFormedWitness ==
  /\ RouterQuoted
  /\ router.request.amountIn = 10
  /\ calculateBasePrice(router.request.tokenIn, router.request.tokenOut) = 199
  /\ router.quotes[1].raydium.price = 199 * 1019
  /\ router.quotes[1].meteora.price = 199 * 1019
  /\ negative(hashLoop(SOL \o USDC, 1, 0, 0))
  /\ calculateBasePrice(BONK, RAY) = 100

\* C17: executeSwap does not raise; a result with success = false carries
\* an error description and no receipt id, executed price or output amount;
\* a result with success = true carries all three and no error; the
\* simulated network failure gives success = false.
SwapNeverRaises ==
  RouterSettled =>
    LET r == router.result[1]
    IN /\ ~r.raised
       /\ r.success \in BOOLEAN
       /\ ~r.success =>
            /\ r.error # "none"
            /\ r.txHash = None
            /\ r.executedPrice = None
            /\ r.outputAmount = None
       /\ r.success =>
            /\ r.error = "none"
            /\ r.txHash # None
            /\ r.executedPrice # None
            /\ r.outputAmount # None
       /\ networkFails(router.draws.swap.fail) <=> ~r.success

SwapNeverRaisesWitness ==
  /\ RouterSettled
  /\ networkFails(router.draws.swap.fail)
  /\ ~router.result[1].success

\* C18: on a successful settlement the executed price is at most the price
\* quoted at routing and at least quoted * (1 - slippage / 100), and the
\* output amount is amountIn * executedPrice.  (The executed price is in
\* units of 1/unit of a price unit, unit a multiple of 100.)
SlippageBound ==
  (RouterSettled /\ router.result[1].success) =>
    LET r == router.result[1]
        quoted == router.routed[1].executedPrice[1]
        unit == r.unit[1]
        tolerance == router.request.slippage
    IN /\ quoted = router.quotes[1].best.price
       /\ r.executedPrice[1] <= quoted * unit
       /\ r.executedPrice[1] >= quoted * (100 - tolerance) * (unit \div 100)
       /\ r.outputAmount[1] = router.request.amountIn * r.executedPrice[1]

\* a settlement strictly inside the bound, at the widest tolerance
SlippageBoundWitness ==
  /\ RouterSettled
  /\ router.result[1].success
  /\ router.request.slippage = 100
  /\ router.request.amountIn = 10
  /\ router.draws.swap.slip.num = 3
  /\ router.result[1].executedPrice[1]
       < router.routed[1].executedPrice[1] * router.result[1].unit[1]
  /\ router.result[1].executedPrice[1] > 0

LowerHex == {"0", "1", "2", "3", "4", "5", "6", "7", "8", "9",
             "a", "b", "c", "d", "e", "f"}

\* C19: the receipt id of every successful executeSwap is a string of
\* exactly 64 characters, each a lowercase hexadecimal digit.
TxHashFormat ==
  (RouterSettled /\ router.result[1].success) =>
    LET txHash == router.result[1].txHash[1]
    IN /\ Len(txHash) = 64
       /\ \A i \in 1..Len(txHash) : txHash[i] \in LowerHex

TxHashFormatWitness ==
  /\ RouterSettled
  /\ router.result[1].success
  /\ "f" \in Range(router.result[1].txHash[1])
  /\ "0" \in Range(router.result[1].txHash[1])
  /\ Len(router.result[1].txHash[1]) = 64

\* C20 as claimed: every confirmed event carries the settlement persisted
\* on success (receipt id, executed price and output amount) and every
\* failed event carries the error message.  The confirmed event is emitted
\* with the receipt id and the executed price only; the output amount is
\* written to the store and left out of the event.
TerminalEventPayload ==
  \A o \in Orders : \A i \in 1..Len(published[o]) :
    LET e == published[o][i]
    IN /\ e.status = "confirmed" =>
            /\ e.data.txHash # None
            /\ e.data.executedPrice # None
            /\ e.data.outputAmount # None
       /\ e.status = "failed" => e.data.error # "none"

\* ------------------------------------------------ the event hub taken alone

\* the events of order x among events
OfOrder(events, x) ==
  LET Mine(e) == e.orderId = x
  IN SelectSeq(events, Mine)

\* C21 as claimed: a subscription to order X receives every event published
\* for X while it is registered, once each and in publication order, and no
\* event of X published before it subscribed or after it unsubscribed; so do
\* several subscriptions to the same order.  A callback that raises ends
\* the emit (C22), and the listeners registered after it miss the event.
SubscriptionDelivery ==
  hub.stage = "open" =>
    \A i \in 1..Len(hub.subs) :
      OfOrder(hub.received[i], hub.subs[i].orderId) = hub.due[i]

\* subscription i was owed, or was given, event number n
Owed(i, n) == \E k \in 1..Len(hub.due[i]) : hub.due[i][k].n = n
Given(i, n) == \E k \in 1..Len(hub.received[i]) : hub.received[i][k].n = n

\* C22 as claimed: when a callback raises during the publication of an
\* event, every other callback registered for the order still receives the
\* event.  emit stops at the listener that throws.
PublishIsolation ==
  hub.stage = "open" =>
    \A n \in hub.raised : \A i \in 1..Len(hub.subs) : Owed(i, n) => Given(i, n)

\* list without listener i
Without(list, i) ==
  LET Other(l) == l # i
  IN SelectSeq(list, Other)

\* C23: a call of a subscription's unsubscribe removes that subscription's
\* listener and nothing else (every other subscription, one of the same
\* callback included, stays registered and keeps what it received); a
\* second call changes nothing; and once unsubscribed, a subscription
\* receives no event.
UnsubscribeLocal ==
  [][hub.stage = "open" =>
       \A i \in 1..Len(hub.subs) :
         /\ hub'.subs[i].unsubscribed > hub.subs[i].unsubscribed =>
              /\ \A c \in Channels :
                   hub'.listeners[c] = Without(hub.listeners[c], i)
              /\ hub.subs[i].unsubscribed >= 1 =>
                   hub'.listeners = hub.listeners
              /\ hub'.received = hub.received
              /\ \A j \in 1..Len(hub.subs) : j # i => hub'.subs[j] = hub.subs[j]
         /\ hub.subs[i].unsubscribed >= 1 =>
              /\ hub'.received[i] = hub.received[i]
              /\ \A c \in Channels : i \notin Range(hub.listeners[c])]_vars

\* a subscription unsubscribed twice, and a second subscription of the
\* same callback to the same order that went on receiving
UnsubscribeLocalWitness ==
  /\ hub.stage = "open"
  /\ \E i, j \in 1..Len(hub.subs) :
       /\ i # j
       /\ hub.subs[i].orderId = hub.subs[j].orderId
       /\ hub.subs[i].callback = hub.subs[j].callback
       /\ hub.subs[i].unsubscribed = 2
       /\ j \in registeredFor(hub, hub.subs[j].orderId)
       /\ Len(hub.received[i]) > 0
       /\ Len(hub.received[j]) > Len(hub.received[i])

\* C30 as claimed: a callback subscribed to order id X is called only with
\* events whose orderId is X.  The channel of X = "update" is the global
\* channel, on which every order's events are emitted.
SubscriberIsolation ==
  hub.stage = "open" =>
    \A i \in 1..Len(hub.subs) : \A k \in 1..Len(hub.received[i]) :
      hub.received[i][k].orderId = hub.subs[i].orderId

\* ------------------------------------------------------ queue inspection

\* the orders enqueued so far
Enqueued == {o \in Orders : job[o].status # "none"}

\* the number of the four collections o is in, counted with repetition
Holdings(o) ==
  Occurrences(queue, o) + Occurrences(completedJobs, o)
    + Occurrences(failedJobs, o) + (IF o \in activeJobs THEN 1 ELSE 0)

\* C24: getStats returns the sizes of the waiting list, the active set, the
\* completed record and the failed record, and their sum as total; every
\* enqueued job is in exactly one of the four, so total is the number of
\* orders enqueued so far.
QueueStatistics ==
  /\ getStats.waiting = Len(queue)
  /\ getStats.active = Cardinality(activeJobs)
  /\ getStats.completed = Len(completedJobs)
  /\ getStats.failed = Len(failedJobs)
  /\ getStats.total = getStats.waiting + getStats.active
                        + getStats.completed + getStats.failed
  /\ \A o \in Orders : Holdings(o) = (IF o \in Enqueued THEN 1 ELSE 0)
  /\ getStats.total = Cardinality(Enqueued)

\* all four collections in use at once needs more orders than the base
\* bound; here one job completed and one failed for good
QueueStatisticsWitness ==
  /\ getStats.completed = 1
  /\ getStats.failed = 1
  /\ getStats.total = NumOrders

\* C25: getJob(id) returns the job exactly when it is in the waiting list,
\* the completed record or the failed record; an active job (being
\* processed or waiting out its backoff) and an id never enqueued are
\* reported as not found.
GetJobScope ==
  \A o \in Orders :
    /\ getJob(o) # None <=>
         o \in Range(queue) \cup Range(completedJobs) \cup Range(failedJobs)
    /\ getJob(o) # None => getJob(o) = Some(job[o])
    /\ o \in activeJobs => getJob(o) = None
    /\ pc[o] \in {"quoting", "building", "swapping", "backoff"} =>
         getJob(o) = None
    /\ o \notin Enqueued => getJob(o) = None

GetJobScopeWitness ==
  \E o, p \in Orders :
    /\ pc[o] = "backoff"
    /\ getJob(o) = None
    /\ job[p].status = "waiting"
    /\ getJob(p) = Some(job[p])

\* the engine's state is the same after the step as before it
EngineUntouched == UNCHANGED engine

\* a body the schema has to reject: a required field is missing or empty,
\* the type is none of the three order types, the amount is not above
\* zero, or the slippage is outside 0..100
Rejectable(body) ==
  \/ body.type = None \/ body.tokenIn = None \/ body.tokenOut = None
  \/ body.amountIn = None
  \/ body.type # None /\ body.type[1] \notin {"market", "limit", "sniper"}
  \/ body.tokenIn # None /\ body.tokenIn[1] = <<>>
  \/ body.tokenOut # None /\ body.tokenOut[1] = <<>>
  \/ body.amountIn # None /\ body.amountIn[1] <= 0
  \/ body.slippage # None /\ body.slippage[1] \notin 0..100

\* C26: a submission whose body misses a required field, names an unknown
\* type, has an amount of zero or less or a slippage outside 0..100 is
\* answered 400 and leaves the store and the queue as they were; any other
\* submission is answered 201 for an order that is stored and queued, and
\* when the body has no slippage the order has slippage 1
RejectedSubmissionNoTrace ==
  [][(reply' # reply /\ reply'.method = "POST")
       => /\ Rejectable(reply'.request[1]) <=> reply'.code = 400
          /\ reply'.code = 400 => EngineUntouched
          /\ reply'.code # 400
               => /\ reply'.code = 201
                  /\ store[reply'.orderId[1]] = NoOrder
                  /\ store'[reply'.orderId[1]].status = "pending"
                  /\ job'[reply'.orderId[1]] # NoJob
                  /\ job[reply'.orderId[1]] = NoJob
                  /\ reply'.request[1].slippage = None
                       => /\ store'[reply'.orderId[1]].slippage = 1
                          /\ order'[reply'.orderId[1]].slippage = 1]_vars

\* a body with an amount of zero has been rejected while an order accepted
\* without a slippage is in the store
RejectedSubmissionNoTraceWitness ==
  /\ reply.method = "POST"
  /\ reply.code = 400
  /\ reply.request[1].amountIn = Some(0)
  /\ reply.details = {"amountIn"}
  /\ \E o \in Orders : store[o] # NoOrder /\ store[o].slippage = 1

\* C27: a lookup leaves the store as it was; for an id no order was created
\* with it answers 404 without a record, and for a created id it answers
\* 200 with the whole stored record
LookupReadOnly ==
  [][(reply' # reply /\ reply'.method = "GET")
       => /\ EngineUntouched
          /\ store[reply'.orderId[1]] = NoOrder
               => reply'.code = 404 /\ reply'.order = None
          /\ store[reply'.orderId[1]] # NoOrder
               => reply'.code = 200 /\ reply'.order = Some(store[reply'.orderId[1]])]_vars

\* the second id has been looked up and not found while the first order
\* is confirmed in the store
LookupReadOnlyWitness ==
  /\ reply.method = "GET"
  /\ reply.code = 404
  /\ reply.orderId = Some(2)
  /\ store[2] = NoOrder
  /\ store[1] # NoOrder
  /\ store[1].status = "confirmed"

\* the step hands order o to addOrder
Enqueues(o) == job[o] = NoJob /\ job'[o] # NoJob

\* the orders active before the step were enqueued just before it: each is
\* in the first moments of its first attempt
BurstOnly ==
  \A p \in activeJobs : job[p].attempts = 1 /\ pc[p] = "quoting"

Dropped(o) == closed /\ job[o].status = "waiting" /\ o \notin Range(queue)

\* C29: the step of close() leaves the waiting list and the active set
\* empty, with getStats reporting waiting 0 and active 0, and leaves the
\* completed and failed records, the job records and every attempt in
\* flight as they were; a job that was waiting when close() was called is
\* never started afterwards.
ShutdownBookkeeping ==
  [][/\ (closed' /\ ~closed)
          => /\ queue' = <<>>
             /\ activeJobs' = {}
             /\ getStats'.waiting = 0
             /\ getStats'.active = 0
             /\ completedJobs' = completedJobs
             /\ failedJobs' = failedJobs
             /\ getStats'.completed = getStats.completed
             /\ getStats'.failed = getStats.failed
             /\ \A o \in Range(queue) : Dropped(o)'
             /\ UNCHANGED <<job, pc, timer, order, store, published>>
     /\ \A o \in Orders :
          Dropped(o) => /\ job'[o] = job[o]
                        /\ pc'[o] = pc[o]
                        /\ o \notin activeJobs'
                        /\ Dropped(o)']_vars

\* after close() one job has been dropped from the waiting list while the
\* attempt of another, no longer counted as active, is still in flight
ShutdownBookkeepingWitness ==
  /\ closed
  /\ getStats.waiting = 0
  /\ \E o \in Orders : Dropped(o) /\ job[o].attempts = 0
  /\ \E p \in Orders : /\ job[p].status = "active"
                       /\ p \notin activeJobs
                       /\ pc[p] = "swapping"

\* the attempts of order o whose settlement succeeded: those that emitted
\* confirmed
SettledAttempts(o) ==
  {published[o][i].attempt :
     i \in {k \in 1..Len(published[o]) : published[o][k].status = "confirmed"}}

\* the number of executeSwap calls made for order o: one after each
\* submitted event
SettlementCalls(o) ==
  Cardinality({i \in 1..Len(published[o]) :
                 published[o][i].status = "submitted"})

\* C31: whatever callback is subscribed to an order, an order whose
\* settlement succeeded is recorded confirmed, its job is completed, the
\* attempt that settled is its last, and executeSwap is not called again.
SubscriberNeutral ==
  \A o \in Orders :
    SettledAttempts(o) # {}
      => /\ store[o].status = "confirmed"
         /\ order[o].status = "confirmed"
         /\ job[o].status = "completed"
         /\ o \in Range(completedJobs)
         /\ \A a \in SettledAttempts(o) :
              /\ job[o].attempts = a
              /\ SettlementCalls(o) <= a
              /\ \A i \in 1..Len(published[o]) : published[o][i].attempt <= a

\* the orders whose attempt is in flight: processOrder has been invoked
\* and has not returned, or the job is in its backoff delay
InFlight == {o \in Orders : pc[o] \in {"quoting", "building", "swapping",
                                        "backoff"}}

\* C32: whatever the order of addOrder, job completion and close(), no
\* more orders are in flight than the concurrency limit, and at most one
\* processing loop is running.
InFlightCapped ==
  /\ Cardinality(InFlight) <= Concurrency
  /\ loops <= 1

\* C33: once close() has been called, and no addOrder follows, the waiting
\* list and the active set are empty and stay empty; in particular no
\* job is waiting while no processing loop is left to start it.
ShutdownFinal ==
  closed => /\ queue = <<>>
            /\ activeJobs = {}
            /\ \A o \in Orders :
                 ~(job[o].status = "waiting" /\ o \in Range(queue)
                     /\ loops = 0)

\* the jobs in their backoff delay
InBackoff == {o \in Orders : pc[o] = "backoff"}

\* C34: a job in its backoff delay is in the active set and in none of
\* the waiting list, the completed record and the failed record, and
\* getStats counts it as active; while as many jobs are in backoff as the
\* concurrency limit allows no job is started; and the step that ends the
\* delay removes the job from the active set and puts it last in the
\* waiting list at once.
BackoffHoldsSlot ==
  [][/\ \A o \in InBackoff' :
          /\ o \in activeJobs'
          /\ job'[o].status = "active"
          /\ o \notin Range(queue')
          /\ o \notin Range(completedJobs')
          /\ o \notin Range(failedJobs')
     /\ getStats'.active >= Cardinality(InBackoff')
     /\ Cardinality(InBackoff) >= Concurrency
          => \A p \in Orders :
               job[p].status # "active" => job'[p].status # "active"
     /\ \A o \in InBackoff \ InBackoff' :
          /\ o \in activeJobs
          /\ o \notin activeJobs'
          /\ queue' = Append(queue, o)
          /\ job'[o].status = "waiting"]_vars

\* every slot is held by a job in backoff, part of the delay has passed,
\* and another job is waiting
BackoffHoldsSlotWitness ==
  /\ Cardinality(InBackoff) = Concurrency
  /\ InBackoff = activeJobs
  /\ \E o \in InBackoff : waited[o] > 0
  /\ \E p \in Orders : p \in Range(queue) /\ job[p].attempts = 0

\* the job statuses that are final
TerminalJob == {"completed", "failed"}

\* C35: a job recorded completed or permanently failed is in neither the
\* waiting list nor the active set and is recorded once, in the record of
\* its status and not in the other; from then on its attempt count, its
\* status and the number of processOrder calls made for its order do not
\* change.
TerminalAbsorbing ==
  [][\A o \in Orders :
       /\ job'[o].status \in TerminalJob
            => /\ o \notin Range(queue')
               /\ o \notin activeJobs'
               /\ Occurrences(completedJobs', o)
                    = (IF job'[o].status = "completed" THEN 1 ELSE 0)
               /\ Occurrences(failedJobs', o)
                    = (IF job'[o].status = "failed" THEN 1 ELSE 0)
       /\ job[o].status \in TerminalJob
            => /\ job'[o] = job[o]
               /\ invocations'[o] = invocations[o]
               /\ pc'[o] = pc[o]]_vars

\* one job is completed and another, started after it, is already at a
\* later attempt
TerminalAbsorbingWitness ==
  \E o, p \in Orders :
    /\ job[o].status = "completed"
    /\ job[p].status = "active"
    /\ job[p].attempts > 1
    /\ completedJobs = <<o>>

\* C36: a stored order whose status is confirmed carries the settlement
\* fields and no error message.
ConfirmedWithoutError ==
  \A o \in Orders :
    store[o].status = "confirmed"
      => /\ store[o].error = "none"
         /\ store[o].txHash # None
         /\ store[o].outputAmount # None

\* the connection registered last for an order id
LatestConnection(orderId) ==
  CHOOSE k \in Connections :
    /\ websocket.sockets[k].orderId = orderId
    /\ \A j \in Connections :
         websocket.sockets[j].orderId = orderId => j <= k

\* C37: the connection registered last for an order id stays registered
\* while it is open, whatever happens to the connections registered for
\* that id before it, so that sendUpdate reaches it.
LatestConnectionRegistered ==
  \A orderId \in SocketOrderIds :
    (\E k \in Connections : websocket.sockets[k].orderId = orderId)
      => (websocket.sockets[LatestConnection(orderId)].readyState = 1
            => websocket.connections[orderId] = LatestConnection(orderId))

====
